---- MODULE Spec2Model ----
(***************************************************************************)
(* Model of src/bot.py (steam-price-bot).                                  *)
(*                                                                         *)
(* Two specifications share this module:                                   *)
(*   SpecFetch  one call of safe_get_json, one action per HTTP request;    *)
(*   Spec       successive scheduled runs of main() over the persisted     *)
(*              price cache (.data/prices.json) and ledger                 *)
(*              (.data/history.csv).                                       *)
(*                                                                         *)
(* Time is counted in tenths of a second, so that DELAY_SEC = 1.2 s and    *)
(* the truncation of ledger timestamps to whole seconds are both exact.    *)
(* Prices are exact non-negative integers; the code's float arithmetic is  *)
(* modelled as exact rational arithmetic (a mean is kept as sum and count).*)
(***************************************************************************)
EXTENDS Integers, Sequences, FiniteSets, TLC

VARIABLES
    \* ---- safe_get_json: one call ----
    http,          \* locals of the call: pc, attempt, delay, ret, and the sleeps performed
    outcomes,      \* history of the outcomes of the requests issued by the call
    \* ---- environment and persisted files ----
    clock,         \* wall clock, tenths of a second
    runStart,      \* start time of the latest run (the scheduler is periodic)
    runs,          \* number of runs started
    lastRun,       \* how the run before the current one went, and when it started
    itemsFile,     \* raw lines of items.txt
    inventory,     \* STEAM_ID64 being set, and what the inventory request answers
    cacheFile,     \* content of .data/prices.json (a function item -> entry)
    historyCsv,    \* lines of .data/history.csv, <<>> when the file does not exist
    webhook3hr,    \* whether DISCORD_WEBHOOK_3HR is set for the current run
    \* ---- main(): locals of the current run ----
    pc,            \* position of main
    exception,     \* the uncaught exception that ended the run, "" when there is none
    prices,        \* in-memory cache
    items,         \* de-duplicated item list
    idx,           \* loop index (1-based)
    now,           \* time.time() taken at the top of the loop body
    entry,         \* prices.get(item, {})
    price,         \* fetched price
    avg_3hr,       \* window average used for the item
    \* ---- history variables ----
    observations,  \* what append_history was asked to record: <<ts, item, price>> records
    events         \* side effects of the current run, in order

fetchVars == <<http, outcomes>>
fileVars  == <<itemsFile, inventory, cacheFile, historyCsv>>
mainVars  == <<clock, runStart, runs, lastRun, itemsFile, inventory, cacheFile, historyCsv, webhook3hr,
               pc, exception, prices, items, idx, now, entry, price, avg_3hr, observations, events>>
vars      == <<http, outcomes, clock, runStart, runs, lastRun, itemsFile, inventory, cacheFile, historyCsv,
               webhook3hr, pc, exception, prices, items, idx, now, entry, price, avg_3hr,
               observations, events>>

None == "None"

Abs(x) == IF x < 0 THEN -x ELSE x

RECURSIVE Pow(_, _)
Pow(b, e) == IF e = 0 THEN 1 ELSE b * Pow(b, e - 1)

(***************************************************************************)
(* safe_get_json (src/bot.py 40-75)                                        *)
(***************************************************************************)
RETRY_BASE == 2
max_retries == 6

\* Status codes a response may carry; 499/500/599/600 are the edges of the 5xx test.
StatusCodes == {200, 404, 429, 499, 500, 599, 600}

\* Outcome of one requests.get: a transport exception, or a response with a
\* status code and (for the body) whether r.json() parses.
HttpOutcomes ==
    {[exc |-> TRUE, status |-> 0, json_ok |-> FALSE]}
    \cup {[exc |-> FALSE, status |-> s, json_ok |-> (s = 200)] : s \in StatusCodes}
    \cup {[exc |-> FALSE, status |-> 200, json_ok |-> FALSE]}

HttpInit == [pc |-> "loop", attempt |-> 1, delay |-> 1, ret |-> "pending", waits |-> <<>>]

\* time.sleep(delay); delay *= 2; continue
Backoff(h) == [h EXCEPT !.waits = Append(@, h.delay), !.delay = h.delay * 2,
                        !.attempt = @ + 1]

\* Mutant: the 429 wait follows the doubling delay of the other failures.
RateLimited_Doubling(h) == [h EXCEPT !.waits = Append(@, h.delay), !.delay = h.delay * 2,
                                     !.attempt = @ + 1]

\* time.sleep(RETRY_BASE ** attempt); continue
RateLimited(h) == [h EXCEPT !.waits = Append(@, Pow(RETRY_BASE, h.attempt)),
                            !.attempt = @ + 1]

Return(h, v) == [h EXCEPT !.pc = "returned", !.ret = v]

\* Mutant: a 429 is retried without being counted against the ceiling.
Attempt_RateLimitUncounted(h, o) ==
    IF o.exc THEN Backoff(h)
    ELSE IF o.status = 200 THEN (IF o.json_ok THEN Return(h, "data") ELSE Return(h, None))
    ELSE IF o.status = 429 THEN [h EXCEPT !.waits = Append(@, Pow(RETRY_BASE, h.attempt))]
    ELSE IF 500 <= o.status /\ o.status < 600 THEN Backoff(h)
    ELSE Return(h, None)

\* Mutant: every status other than 200 and 429 is retried.
Attempt_RetryAnyStatus(h, o) ==
    IF o.exc THEN Backoff(h)
    ELSE IF o.status = 200 THEN (IF o.json_ok THEN Return(h, "data") ELSE Return(h, None))
    ELSE IF o.status = 429 THEN RateLimited(h)
    ELSE Backoff(h)

\* Mutant: a 5xx waits on the rate-limit curve instead of the doubling delay.
Attempt_ServerErrorAsRateLimit(h, o) ==
    IF o.exc THEN Backoff(h)
    ELSE IF o.status = 200 THEN (IF o.json_ok THEN Return(h, "data") ELSE Return(h, None))
    ELSE IF o.status = 429 \/ (500 <= o.status /\ o.status < 600) THEN RateLimited(h)
    ELSE Return(h, None)

\* Mutant: the last attempt gives up without waiting.
Attempt_NoWaitAfterLast(h, o) ==
    IF h.attempt = max_retries
       /\ (o.exc \/ o.status = 429 \/ (500 <= o.status /\ o.status < 600))
    THEN [h EXCEPT !.attempt = @ + 1]
    ELSE IF o.exc THEN Backoff(h)
    ELSE IF o.status = 200 THEN (IF o.json_ok THEN Return(h, "data") ELSE Return(h, None))
    ELSE IF o.status = 429 THEN RateLimited(h)
    ELSE IF 500 <= o.status /\ o.status < 600 THEN Backoff(h)
    ELSE Return(h, None)

\* One iteration of the for loop, given the outcome of requests.get.
Attempt(h, o) ==
    IF o.exc THEN Backoff(h)
    ELSE IF o.status = 200 THEN (IF o.json_ok THEN Return(h, "data") ELSE Return(h, None))
    ELSE IF o.status = 429 THEN RateLimited(h)
    ELSE IF 500 <= o.status /\ o.status < 600 THEN Backoff(h)
    ELSE Return(h, None)

Request ==
    /\ http.pc = "loop"
    /\ http.attempt <= max_retries
    /\ \E o \in HttpOutcomes :
          /\ http' = Attempt(http, o)
          /\ outcomes' = Append(outcomes, o)
    /\ UNCHANGED mainVars

\* The for loop is exhausted: "FAILED: max retries reached", return None.
Exhausted ==
    /\ http.pc = "loop"
    /\ http.attempt > max_retries
    /\ http' = Return(http, None)
    /\ UNCHANGED outcomes
    /\ UNCHANGED mainVars

(***************************************************************************)
(* Text: a string is a sequence of tokens.  A token is one character, or   *)
(* the digits of one number (kept whole, so that it can be parsed back).   *)
(***************************************************************************)
Ch(c)  == [ch |-> c, num |-> 0]
Num(n) == [ch |-> "#", num |-> n]
Text(s) == [i \in DOMAIN s |-> Ch(s[i])]
Comma  == Ch(",")
IsSpace(t) == t = Ch(" ")
IsNum(t) == t.ch = "#"

RECURSIVE LStrip(_)
LStrip(s) == IF s = <<>> THEN s
             ELSE IF IsSpace(Head(s)) THEN LStrip(Tail(s)) ELSE s

RECURSIVE RStrip(_)
RStrip(s) == IF s = <<>> THEN s
             ELSE IF IsSpace(s[Len(s)]) THEN RStrip(SubSeq(s, 1, Len(s) - 1)) ELSE s

\* str.strip()
Strip(s) == RStrip(LStrip(s))

\* str.split(","): always at least one field
RECURSIVE SplitFrom(_, _, _, _)
SplitFrom(s, i, done, cur) ==
    IF i > Len(s) THEN Append(done, cur)
    ELSE IF s[i] = Comma THEN SplitFrom(s, i + 1, Append(done, cur), <<>>)
    ELSE SplitFrom(s, i + 1, done, Append(cur, s[i]))

Split(s) == SplitFrom(s, 1, <<>>, <<>>)

\* str.replace(tok, "")
Remove(s, toks) == SelectSeq(s, LAMBDA t : t \notin toks)

\* float(s): succeeds on the digits of one number
FloatOk(s) == Len(s) = 1 /\ IsNum(s[1])
Float(s)   == s[1].num

\* list(dict.fromkeys(l)): first occurrences, in order
RECURSIVE Dedupe(_)
Dedupe(l) ==
    IF l = <<>> THEN l
    ELSE LET r == Dedupe(SubSeq(l, 1, Len(l) - 1))
             x == l[Len(l)]
         IN  IF \E i \in DOMAIN r : r[i] = x THEN r ELSE Append(r, x)

(***************************************************************************)
(* Configuration (src/bot.py 17-29) in the model's units                   *)
(***************************************************************************)
DELAY_SEC         == 12      \* 1.2 s, in tenths of a second
MIN_ALERT_PCT     == 10      \* 0.10, in percent
MIN_3HR_ALERT_PCT == 5       \* 0.05, in percent
Seconds(n)        == n * 10

(***************************************************************************)
(* Inputs and bounds                                                       *)
(***************************************************************************)
MaxIterations == 4   \* loop iterations of main, summed over the runs the scheduler starts

ItemA == Text(<<"A">>)
ItemB == Text(<<"B">>)
ItemC == Text(<<"C", ",", "D">>)      \* a market name that contains a comma

\* Contents of items.txt: raw lines, before strip / blank removal / de-duplication.
ItemFiles == { <<ItemA>>,
               <<ItemA \o Text(<<" ">>), Text(<<" ">>), ItemB, ItemA>>,
               <<ItemC, ItemA>>,
               <<>> }

\* The inventory request: STEAM_ID64 unset; set with a failed request; set
\* with descriptions that repeat a name and hold a non-marketable one.
Description(name, m) == [market_hash_name |-> name, marketable |-> m]
NoInventory == [steam_id |-> FALSE, data |-> [ok |-> FALSE, descriptions |-> <<>>]]
Inventories ==
    { [steam_id |-> TRUE, data |-> [ok |-> FALSE, descriptions |-> <<>>]],
      [steam_id |-> TRUE,
       data |-> [ok |-> TRUE,
                 descriptions |-> <<Description(ItemA, 1), Description(ItemB, 0),
                                    Description(ItemB, 1), Description(ItemA, 1)>>]] }

Prices   == {0, 100, 106, 110}
FetchDur == {8}                            \* time spent in fetch_price_for_item
\* Time from the start of one scheduled run to the start of the next
Gaps     == {Seconds(1800), Seconds(3600), Seconds(7200)}

\* What safe_get_json hands to fetch_price_for_item: None, or a document with
\* optional lowest_price / median_price texts (<<>> when absent).
\* Ch("R") stands for the rupee sign of the price text, e.g. "R 100"
Rupees(p) == <<Ch("R"), Ch(" "), Num(p)>>
NoData    == [ok |-> FALSE, lowest_price |-> <<>>, median_price |-> <<>>]
FetchData ==
    {NoData}
    \cup {[ok |-> TRUE, lowest_price |-> Rupees(p), median_price |-> <<>>] : p \in Prices}
    \cup {[ok |-> TRUE, lowest_price |-> <<>>, median_price |-> Rupees(100) \o <<Ch("INR")>>],
          [ok |-> TRUE, lowest_price |-> <<>>, median_price |-> <<>>],
          [ok |-> TRUE, lowest_price |-> Text(<<"N", "/", "A">>), median_price |-> Rupees(100)]}

(***************************************************************************)
(* Helpers of main (src/bot.py 97-181)                                     *)
(***************************************************************************)
EmptyCache == [i \in {} |-> 0]
NoFile     == [exists |-> FALSE, doc |-> EmptyCache]

\* load_json: a missing file is an empty cache
load_json(f) == IF ~f.exists THEN EmptyCache ELSE f.doc

\* save_json
save_json(data) == [exists |-> TRUE, doc |-> data]

\* The names load_items_list reads, before de-duplication: the stripped
\* non-blank lines of items.txt (122-127); without any, and with STEAM_ID64
\* set, the market_hash_name of the marketable descriptions of the inventory
\* (129-140); the empty list when STEAM_ID64 is unset or the request failed.
RawList(raw, inv) ==
    LET stripped == [i \in DOMAIN raw |-> Strip(raw[i])]
        lines    == SelectSeq(stripped, LAMBDA l : l # <<>>)
        market   == SelectSeq(inv.data.descriptions, LAMBDA d : d.marketable = 1)
    IN  IF lines # <<>> THEN lines
        ELSE IF ~inv.steam_id \/ ~inv.data.ok THEN <<>>
        ELSE [i \in DOMAIN market |-> market[i].market_hash_name]

\* Mutant: the list is used as it was read.
load_items_list_Raw(raw, inv) == RawList(raw, inv)

\* load_items_list: list(dict.fromkeys(...)) of the names of either source
load_items_list(raw, inv) == Dedupe(RawList(raw, inv))

\* fetch_price_for_item, after safe_get_json returned data
fetch_price_for_item(data) ==
    IF ~data.ok THEN [ok |-> FALSE, value |-> 0]
    ELSE LET price_str == IF data.lowest_price # <<>> THEN data.lowest_price
                          ELSE data.median_price
             cleaned   == Strip(Remove(price_str, {Ch("R"), Ch("INR"), Comma}))
         IN  IF price_str = <<>> THEN [ok |-> FALSE, value |-> 0]
             ELSE IF FloatOk(cleaned) THEN [ok |-> TRUE, value |-> Float(cleaned)]
             ELSE [ok |-> FALSE, value |-> 0]

Header == <<Ch("timestamp"), Comma, Ch("item"), Comma, Ch("price")>>

\* strftime("%Y-%m-%d %H:%M:%S"): the sub-second part is dropped
strftime(t) == (t \div 10) * 10

\* the line append_history writes: f'{ts},{item},{price}\n'
HistoryLine(t, item, p) == <<Num(strftime(t))>> \o <<Comma>> \o item \o <<Comma>> \o <<Num(p)>>

\* Mutant: the record is not in the ledger when the signals are evaluated.
append_history_Deferred(csv, t, item, p) == csv

\* append_history: the header when the file is new, then the record
append_history(csv, t, item, p) ==
    (IF csv = <<>> THEN <<Header>> ELSE csv) \o <<HistoryLine(t, item, p)>>

\* The loop of get_3hr_avg over the lines after the header (166-178).
\*   raised: line.strip().split(",") did not unpack into three fields (ValueError);
\*   sum, n: the prices appended to prices_last_3hr so far.
RECURSIVE ScanHistory(_, _, _, _, _)
ScanLine(csv, i, item, three_hours_ago, acc, f) ==
    IF Len(f) # 3 THEN [acc EXCEPT !.raised = TRUE]
    ELSE IF Strip(f[2]) # item THEN ScanHistory(csv, i + 1, item, three_hours_ago, acc)
    ELSE IF FloatOk(f[1]) /\ Float(f[1]) >= three_hours_ago /\ FloatOk(f[3])
         THEN ScanHistory(csv, i + 1, item, three_hours_ago,
                          [acc EXCEPT !.sum = @ + Float(f[3]), !.n = @ + 1])
    ELSE ScanHistory(csv, i + 1, item, three_hours_ago, acc)

ScanHistory(csv, i, item, three_hours_ago, acc) ==
    IF i > Len(csv) THEN acc
    ELSE ScanLine(csv, i, item, three_hours_ago, acc, Split(Strip(csv[i])))

\* Mutant: the average is taken over the ledger as it was before this run's append.
get_3hr_avg_BeforeAppend(csv, item, t) ==
    LET acc == ScanHistory(SubSeq(csv, 1, Len(csv) - 1), 2, item, t - Seconds(3 * 3600),
                           [raised |-> FALSE, sum |-> 0, n |-> 0])
    IN  [raised |-> acc.raised, none |-> ~acc.raised /\ acc.n = 0,
         sum |-> acc.sum, n |-> acc.n]

\* get_3hr_avg(item) called at time t: raised, or none (no file, or no
\* observation of the item in the window), or the mean as sum and n.
get_3hr_avg(csv, item, t) ==
    IF csv = <<>> THEN [raised |-> FALSE, none |-> TRUE, sum |-> 0, n |-> 0]
    ELSE LET acc == ScanHistory(csv, 2, item, t - Seconds(3 * 3600),
                                [raised |-> FALSE, sum |-> 0, n |-> 0])
         IN  [raised |-> acc.raised, none |-> ~acc.raised /\ acc.n = 0,
              sum |-> acc.sum, n |-> acc.n]

(***************************************************************************)
(* main (src/bot.py 183-251)                                               *)
(***************************************************************************)
NoEntry == [present |-> FALSE, price |-> 0, last_update |-> 0]
NoAvg   == [sum |-> 0, n |-> 0]

\* prices.get(item, {})
Get(cache, item) ==
    IF item \in DOMAIN cache
    THEN [present |-> TRUE, price |-> cache[item].price, last_update |-> cache[item].last_update]
    ELSE NoEntry

\* prices[item] = {...}
Put(cache, item, e) ==
    [i \in DOMAIN cache \cup {item} |-> IF i = item THEN e ELSE cache[i]]

Event(op, item, dir, status) == [op |-> op, item |-> item, dir |-> dir, status |-> status]

\* Mutant: an entry exactly one hour old is still skipped.
Skips_BoundaryExcluded(e, t) == e.last_update # 0 /\ (t - e.last_update) <= Seconds(3600)

\* The staleness gate: last_update and hours_since < 1
Skips(e, t) == e.last_update # 0 /\ (t - e.last_update) < Seconds(3600)

\* "▲" if change > 0 else "▼"
Direction(delta) == IF delta > 0 THEN "up" ELSE "down"

\* Mutant: the threshold itself does not fire.
InstantFires_Strict(p, old) == 100 * Abs(p - old) > MIN_ALERT_PCT * old

\* abs(change) >= MIN_ALERT_PCT, with change = (p - old) / old and old > 0
InstantFires(p, old) == 100 * Abs(p - old) >= MIN_ALERT_PCT * old

\* abs(change_3hr) >= MIN_3HR_ALERT_PCT, with change_3hr = (p - avg) / avg, avg = sum / n > 0
WindowFires(p, avg) == 100 * Abs(p * avg.n - avg.sum) >= MIN_3HR_ALERT_PCT * avg.sum

\* Mutant: `break` in place of `continue`.
NextItem_Break ==
    /\ idx' = idx + 1
    /\ pc' = "done"
    /\ now' = 0
    /\ entry' = NoEntry
    /\ price' = 0
    /\ avg_3hr' = NoAvg

\* `continue`, or the end of the loop body: the next item, or the end of the run
NextItem ==
    /\ idx' = idx + 1
    /\ pc' = IF idx < Len(items) THEN "gate" ELSE "done"
    /\ now' = 0
    /\ entry' = NoEntry
    /\ price' = 0
    /\ avg_3hr' = NoAvg

\* An uncaught exception leaves main
Crash(e) == pc' = "crashed" /\ exception' = e /\ UNCHANGED <<idx, now, entry, price, avg_3hr>>

\* Iterations one run may take (a run without items still counts as one)
RunCost(l) == IF l = <<>> THEN 1 ELSE Len(l)

\* Every item of the list had its entry written by the current run
AllSaved ==
    \A i \in DOMAIN items :
        \E k \in DOMAIN events : events[k] = Event("save", items[i], "", "")

\* The scheduler starts the script: load the cache and the item list (184-189)
StartRun ==
    /\ pc \in {"idle", "done", "crashed", "noitems"}
    /\ (runs + 1) * RunCost(load_items_list(itemsFile, inventory)) <= MaxIterations
    /\ \E g \in Gaps :
          /\ clock' = (IF runs = 0 THEN clock ELSE runStart + g)
          /\ clock' >= clock
    /\ runStart' = clock'
    /\ runs' = runs + 1
    /\ lastRun' = [completed |-> pc \in {"done", "noitems"},
                    allSaved  |-> pc = "done" /\ AllSaved,
                    start     |-> runStart]
    /\ webhook3hr' \in BOOLEAN
    /\ prices' = load_json(cacheFile)
    /\ items' = load_items_list(itemsFile, inventory)
    /\ idx' = 1
    /\ pc' = IF items' = <<>> THEN "noitems" ELSE "gate"
    /\ exception' = ""
    /\ now' = 0 /\ entry' = NoEntry /\ price' = 0 /\ avg_3hr' = NoAvg
    /\ events' = <<>>
    /\ UNCHANGED <<fileVars, observations, fetchVars>>

\* Mutant: the gate lets every item through to the fetch.
Gate_AlwaysFetch ==
    /\ pc = "gate"
    /\ pc' = "fetch"
    /\ entry' = Get(prices, items[idx])
    /\ now' = clock
    /\ UNCHANGED <<idx, price, avg_3hr>>
    /\ UNCHANGED <<clock, runStart, runs, lastRun, exception, fileVars, webhook3hr, prices, items,
                   observations, events, fetchVars>>

\* 192-199: read the entry and the time, skip a fresh item
Gate ==
    /\ pc = "gate"
    /\ LET e == Get(prices, items[idx]) IN
          IF Skips(e, clock)
          THEN NextItem
          ELSE /\ pc' = "fetch"
               /\ entry' = e
               /\ now' = clock
               /\ UNCHANGED <<idx, price, avg_3hr>>
    /\ UNCHANGED <<clock, runStart, runs, lastRun, exception, fileVars, webhook3hr, prices, items,
                   observations, events, fetchVars>>

\* Mutant: the delay is taken only when the fetch gave a price.
Fetch_DelayOnSuccess ==
    /\ pc = "fetch"
    /\ \E data \in FetchData, d \in FetchDur :
          LET r == fetch_price_for_item(data) IN
          IF ~r.ok
          THEN /\ clock' = clock + d
               /\ events' = Append(events, Event("fetch", items[idx], "", ""))
               /\ NextItem
          ELSE /\ clock' = clock + d + DELAY_SEC
               /\ events' = events \o <<Event("fetch", items[idx], "", ""),
                                        Event("sleep", items[idx], "", "")>>
               /\ pc' = "record"
               /\ price' = r.value
               /\ UNCHANGED <<idx, now, entry, avg_3hr>>
    /\ UNCHANGED <<runStart, runs, lastRun, exception, fileVars, webhook3hr, prices, items,
                   observations, fetchVars>>

\* 201-206: fetch the price, sleep DELAY_SEC, give up on the item without a price
Fetch ==
    /\ pc = "fetch"
    /\ \E data \in FetchData, d \in FetchDur :
          LET r == fetch_price_for_item(data) IN
          /\ clock' = clock + d + DELAY_SEC
          /\ events' = events \o <<Event("fetch", items[idx], "", ""),
                                   Event("sleep", items[idx], "", "")>>
          /\ IF ~r.ok
             THEN NextItem
             ELSE /\ pc' = "record"
                  /\ price' = r.value
                  /\ UNCHANGED <<idx, now, entry, avg_3hr>>
    /\ UNCHANGED <<runStart, runs, lastRun, exception, fileVars, webhook3hr, prices, items,
                   observations, fetchVars>>

\* 207: append_history(item, price)
Record ==
    /\ pc = "record"
    /\ historyCsv' = append_history(historyCsv, clock, items[idx], price)
    /\ observations' = Append(observations,
                              [ts |-> strftime(clock), item |-> items[idx], price |-> price])
    /\ events' = Append(events, Event("append", items[idx], "", ""))
    /\ pc' = "instant"
    /\ UNCHANGED <<clock, runStart, runs, lastRun, exception, itemsFile, inventory, cacheFile, webhook3hr, prices, items,
                   idx, now, entry, price, avg_3hr, fetchVars>>

\* entry.get("price", price), then `if old == 0: old = price`
Baseline(e, p) ==
    LET old == IF e.present THEN e.price ELSE p
    IN  IF old = 0 THEN p ELSE old

\* 209-225: the instant signal; (price - old) / old raises ZeroDivisionError when old is 0
Instant ==
    /\ pc = "instant"
    /\ LET old == Baseline(entry, price) IN
          IF old = 0
          THEN Crash("ZeroDivisionError") /\ UNCHANGED events
          ELSE /\ pc' = "window"
               /\ UNCHANGED <<exception, idx, now, entry, price, avg_3hr>>
               /\ IF InstantFires(price, old)
                  THEN \E ok \in BOOLEAN :
                          events' = Append(events,
                                           Event("instant_alert", items[idx],
                                                 Direction(price - old),
                                                 IF ok THEN "sent" ELSE "failed"))
                  ELSE UNCHANGED events
    /\ UNCHANGED <<clock, runStart, runs, lastRun, fileVars, webhook3hr, prices, items,
                   observations, fetchVars>>

\* 229-245, given the result r of get_3hr_avg: fall back to the price, then
\* (price - avg_3hr) / avg_3hr raises ZeroDivisionError when the average is 0.
WindowAvg(r, p) == IF r.none THEN [sum |-> p, n |-> 1] ELSE [sum |-> r.sum, n |-> r.n]

WindowStep(r, avg) ==
    IF r.raised \/ avg.sum = 0
    THEN Crash(IF r.raised THEN "ValueError" ELSE "ZeroDivisionError") /\ UNCHANGED events
    ELSE /\ pc' = "save"
         /\ avg_3hr' = avg
         /\ UNCHANGED <<exception, idx, now, entry, price>>
         /\ IF WindowFires(price, avg)
            THEN \E ok \in BOOLEAN :
                    events' = Append(events,
                                     Event("window_alert", items[idx],
                                           Direction(price * avg.n - avg.sum),
                                           IF ~webhook3hr THEN "skipped"
                                           ELSE IF ok THEN "sent" ELSE "failed"))
            ELSE UNCHANGED events

\* 227-245: the trailing-window signal; get_3hr_avg may raise ValueError.
Window ==
    /\ pc = "window"
    /\ LET r == get_3hr_avg(historyCsv, items[idx], clock)
       IN  WindowStep(r, WindowAvg(r, price))
    /\ UNCHANGED <<clock, runStart, runs, lastRun, fileVars, webhook3hr, prices, items,
                   observations, fetchVars>>

\* Mutant: the entry is updated in memory and the file is left for later.
Save_MemoryOnly ==
    /\ pc = "save"
    /\ prices' = Put(prices, items[idx],
                     [price |-> price, last_update |-> now, avg_3hr |-> avg_3hr])
    /\ events' = Append(events, Event("save", items[idx], "", ""))
    /\ NextItem
    /\ UNCHANGED <<clock, runStart, runs, lastRun, exception, fileVars, webhook3hr, items,
                   observations, fetchVars>>

\* 248-249: update the entry and persist the whole cache
Save ==
    /\ pc = "save"
    /\ prices' = Put(prices, items[idx],
                     [price |-> price, last_update |-> now, avg_3hr |-> avg_3hr])
    /\ cacheFile' = save_json(prices')
    /\ events' = Append(events, Event("save", items[idx], "", ""))
    /\ NextItem
    /\ UNCHANGED <<clock, runStart, runs, lastRun, exception, itemsFile, inventory, historyCsv, webhook3hr, items,
                   observations, fetchVars>>

(***************************************************************************)
(* Specifications                                                          *)
(***************************************************************************)
MainInit ==
    /\ clock = Seconds(100000000)
    /\ runStart = clock
    /\ runs = 0
    /\ lastRun = [completed |-> FALSE, allSaved |-> FALSE, start |-> clock]
    /\ cacheFile = NoFile
    /\ historyCsv = <<>>
    /\ webhook3hr = TRUE
    /\ pc = "idle"
    /\ exception = ""
    /\ prices = EmptyCache
    /\ items = <<>>
    /\ idx = 1
    /\ now = 0 /\ entry = NoEntry /\ price = 0 /\ avg_3hr = NoAvg
    /\ observations = <<>>
    /\ events = <<>>

Init ==
    /\ MainInit
    /\ \/ itemsFile \in ItemFiles /\ inventory = NoInventory
       \/ itemsFile = <<>> /\ inventory \in Inventories
    /\ http = HttpInit
    /\ outcomes = <<>>

Next == StartRun \/ Gate \/ Fetch \/ Record \/ Instant \/ Window \/ Save

Spec == Init /\ [][Next]_vars

InitFetch ==
    /\ MainInit
    /\ itemsFile = <<>>
    /\ inventory = NoInventory
    /\ http = HttpInit
    /\ outcomes = <<>>

NextFetch == Request \/ Exhausted

SpecFetch == InitFetch /\ [][NextFetch]_vars

(***************************************************************************)
(* Properties of safe_get_json (checked under SpecFetch)                   *)
(***************************************************************************)
TransportError == [exc |-> TRUE, status |-> 0, json_ok |-> FALSE]
IsOk(o)        == ~o.exc /\ o.status = 200 /\ o.json_ok
Is429(o)       == ~o.exc /\ o.status = 429
Is5xx(o)       == ~o.exc /\ o.status >= 500 /\ o.status <= 599
IsRetryable(o) == o.exc \/ Is429(o) \/ Is5xx(o)
IsFatal(o)     == ~IsOk(o) /\ ~IsRetryable(o)

\* C1: a call issues at most max_retries (6) requests, never raises, and
\* returns None when all 6 requests ended in an exception, a 429 or a 5xx.
C1_BoundedNeverRaises ==
    /\ Len(outcomes) <= 6
    /\ http.pc \in {"loop", "returned"}
    /\ http.ret \in {"pending", "data", None}
    /\ (http.pc = "returned") = (http.ret # "pending")
    /\ (/\ http.pc = "returned"
        /\ Len(outcomes) = 6
        /\ \A k \in DOMAIN outcomes : IsRetryable(outcomes[k]))
       => http.ret = None

C1_Witness ==
    /\ http.pc = "returned"
    /\ http.ret = None
    /\ Len(outcomes) = 6
    /\ \A k \in DOMAIN outcomes : IsRetryable(outcomes[k])
    /\ \E i, j, k \in DOMAIN outcomes : outcomes[i].exc /\ Is429(outcomes[j]) /\ Is5xx(outcomes[k])

FiveTimes429Then200 ==
    /\ Len(outcomes) = 6
    /\ \A k \in 1..5 : Is429(outcomes[k])
    /\ IsOk(outcomes[6])

\* C2: 429 on the first five requests and a parseable 200 on the sixth: the
\* call returns the data after waiting exactly 2, 4, 8, 16, 32 seconds.
C2_RateLimitBackoff ==
    FiveTimes429Then200 =>
        /\ http.pc = "returned"
        /\ http.ret = "data"
        /\ http.waits = <<2, 4, 8, 16, 32>>

C2_Witness == FiveTimes429Then200 /\ http.ret = "data"

\* C3: a status other than 200, 429 and 5xx, or a 200 whose body does not
\* parse, ends the call at once with None: it is the last request of the
\* call and no wait follows it, whatever the earlier attempts were.
C3_FatalReturnsAtOnce ==
    \A k \in DOMAIN outcomes :
        IsFatal(outcomes[k]) =>
            /\ k = Len(outcomes)
            /\ http.pc = "returned"
            /\ http.ret = None
            /\ Len(http.waits) = k - 1

C3_Witness ==
    /\ Len(outcomes) = 4
    /\ outcomes[1].exc /\ Is429(outcomes[2]) /\ Is5xx(outcomes[3])
    /\ IsFatal(outcomes[4])
    /\ http.ret = None
    /\ Len(http.waits) = 3

\* The state the loop reaches on a sequence of outcomes
RECURSIVE Replay(_, _)
Replay(outs, k) == IF k = 0 THEN HttpInit ELSE Attempt(Replay(outs, k - 1), outs[k])

\* The same outcomes with every 5xx response replaced by a transport exception
AsTransportErrors(outs) ==
    [k \in DOMAIN outs |-> IF Is5xx(outs[k]) THEN TransportError ELSE outs[k]]

OnlyTransientFailures == \A k \in DOMAIN outcomes : outcomes[k].exc \/ Is5xx(outcomes[k]) \/ IsOk(outcomes[k])

\* C4: when every failed request is an exception or a 5xx, the wait after the
\* k-th failed request is 2^(k-1); and replacing the 5xx responses of any call
\* by transport exceptions changes neither the waits nor the loop state.
C4_DoublingBackoff ==
    /\ OnlyTransientFailures =>
          /\ \A k \in DOMAIN http.waits : http.waits[k] = Pow(2, k - 1)
          /\ Len(http.waits) = Cardinality({k \in DOMAIN outcomes : ~IsOk(outcomes[k])})
    /\ LET r == Replay(AsTransportErrors(outcomes), Len(outcomes))
       IN  /\ r.waits = http.waits
           /\ r.attempt = http.attempt
           /\ r.delay = http.delay

C4_Witness ==
    /\ OnlyTransientFailures
    /\ Len(outcomes) = 6
    /\ http.waits = <<1, 2, 4, 8, 16, 32>>
    /\ \E i, j \in DOMAIN outcomes : outcomes[i].exc /\ Is5xx(outcomes[j])

(***************************************************************************)
(* Properties of main (checked under Spec)                                 *)
(***************************************************************************)
IsAlert(e)        == e.op \in {"instant_alert", "window_alert"}
NumAlerts(ev)     == Cardinality({k \in DOMAIN ev : IsAlert(ev[k])})
EventsOf(op, itm) == {k \in DOMAIN events : events[k].op = op /\ events[k].item = itm}

\* The item has an entry that is less than one hour old
Fresh(itm) == itm \in DOMAIN prices /\ clock - prices[itm].last_update < 36000

\* C5: at the gate the item goes to the fetch if and only if it has no cache
\* entry or now - last_update >= 1 hour; otherwise it is skipped and the skip
\* issues no request and leaves ledger, alerts and both caches unchanged.
C5_StalenessGate ==
    [][/\ pc = "gate" =>
            IF Fresh(items[idx])
            THEN /\ pc' \in {"gate", "done"}
                 /\ idx' = idx + 1
                 /\ UNCHANGED <<clock, historyCsv, observations, cacheFile, prices, events>>
            ELSE /\ pc' = "fetch"
                 /\ idx' = idx
       /\ pc = "fetch" =>
            /\ Len(events') = Len(events) + 2
            /\ events'[Len(events) + 1] = Event("fetch", items[idx], "", "")
      ]_vars

C5_Witness ==
    /\ pc = "done"
    /\ runs = 2
    /\ Len(items) = 2
    /\ items[1] \in DOMAIN prices
    /\ clock - prices[items[1]].last_update < 36000
    /\ EventsOf("fetch", items[1]) = {}
    /\ EventsOf("fetch", items[2]) # {}

\* C6: an item without a cache entry that was fetched successfully gets
\* exactly one new cache entry and no alert of either kind.
C6_FirstObservationSilent ==
    [][(pc \in {"record", "instant", "window", "save"} /\ ~entry.present) =>
            /\ pc' # "crashed"
            /\ NumAlerts(events') = NumAlerts(events)
            /\ pc = "save" =>
                  /\ items[idx] \notin DOMAIN prices
                  /\ DOMAIN prices' = DOMAIN prices \cup {items[idx]}
                  /\ cacheFile'.doc = prices'
      ]_vars

\* C7: with a cached price P # 0 and a fetched price P', exactly one instant
\* alert is sent when |P' - P| / P >= 0.10, up when P' > P and down when
\* P' < P, and none when |P' - P| / P < 0.10, whatever the window signal does.
C7_InstantAlert ==
    (pc \in {"window", "save", "crashed"} /\ entry.present /\ entry.price # 0) =>
        LET sent == EventsOf("instant_alert", items[idx])
        IN  IF 100 * Abs(price - entry.price) >= 10 * entry.price
            THEN /\ Cardinality(sent) = 1
                 /\ \A k \in sent :
                       events[k].dir = (IF price > entry.price THEN "up" ELSE "down")
            ELSE sent = {}

C7_Witness ==
    /\ pc = "save"
    /\ entry.present /\ entry.price = 100 /\ price = 110
    /\ \E k \in EventsOf("instant_alert", items[idx]) : events[k].dir = "up"
    /\ EventsOf("window_alert", items[idx]) = {}

\* C8: with a cached price of 0 the baseline becomes the fetched price, no
\* instant alert fires, and no division by zero occurs for the item.
C8_ZeroBaseline ==
    [][(pc \in {"instant", "window"} /\ entry.present /\ entry.price = 0) =>
            /\ exception' # "ZeroDivisionError"
            /\ pc = "instant" =>
                  /\ Baseline(entry, price) = price
                  /\ pc' = "window"
                  /\ events' = events
      ]_vars

\* The observations of the item recorded within the three hours before t
WindowObs(itm, t) ==
    {k \in DOMAIN observations :
        /\ observations[k].item = itm
        /\ observations[k].ts >= t - 108000
        /\ observations[k].ts <= t}

RECURSIVE SumPrices(_)
SumPrices(S) ==
    IF S = {} THEN 0
    ELSE LET k == CHOOSE x \in S : TRUE IN observations[k].price + SumPrices(S \ {k})

\* The window step used the mean of W and alerted exactly at 5% or more
WindowStepCorrect(W) ==
    /\ Len(observations) \in W
    /\ avg_3hr'.n # 0
    /\ avg_3hr'.sum * Cardinality(W) = SumPrices(W) * avg_3hr'.n
    /\ (NumAlerts(events') = NumAlerts(events) + 1)
          = (100 * Abs(price * Cardinality(W) - SumPrices(W)) >= 5 * SumPrices(W))
    /\ NumAlerts(events') \in {NumAlerts(events), NumAlerts(events) + 1}

\* C9: for every ledger content the window average of a fetched item is the
\* mean of the item's observations of the last 3 hours, this run's included,
\* and the window alert fires iff |price - average| / average >= 0.05.
C9_WindowAverage ==
    [][pc = "window" => (pc' = "save" /\ WindowStepCorrect(WindowObs(items[idx], clock)))]_vars

\* Whenever the window step does complete, it is as C9 says.
WindowAverageWhenEvaluated ==
    [][(pc = "window" /\ pc' = "save") => WindowStepCorrect(WindowObs(items[idx], clock))]_vars

\* Earlier observations of the current item that lie in the window
PriorInWindow ==
    {k \in 1..(Len(observations) - 1) :
        observations[k].item = items[idx] /\ observations[k].ts >= clock - 108000}

ScenarioC ==
    /\ pc = "save"
    /\ price = 106
    /\ Cardinality(PriorInWindow) = 3
    /\ \A k \in PriorInWindow : observations[k].price = 100

\* C10 as stated: three observations at 100 in the window and a fetched 106
\* give a window average of 100 and the window alert fires.
C10_AverageIsHundred ==
    ScenarioC =>
        /\ avg_3hr.sum = 100 * avg_3hr.n
        /\ EventsOf("window_alert", items[idx]) # {}

\* C10 amended: the average is taken over the four observations 100, 100,
\* 100, 106, so it is 101.5, the change is below 5% and no window alert fires.
C10_AverageIncludesCurrent ==
    ScenarioC =>
        /\ avg_3hr = [sum |-> 406, n |-> 4]
        /\ 100 * Abs(price * avg_3hr.n - avg_3hr.sum) < 5 * avg_3hr.sum
        /\ EventsOf("window_alert", items[idx]) = {}

C10_Witness == ScenarioC /\ avg_3hr.n = 4


\* C11: for a successfully fetched item the ledger record is appended before
\* the instant check and before the trailing-window average is read: at both
\* steps the ledger ends with the record of the current sample, so the
\* observations of the window are never empty and contain the current sample,
\* and get_3hr_avg never answers None (the fallback to the price is not taken).
CurrentSample == [ts |-> strftime(clock), item |-> items[idx], price |-> price]

C11_AppendBeforeSignals ==
    [][/\ pc \in {"instant", "window"} =>
            /\ Len(historyCsv) >= 2
            /\ historyCsv[Len(historyCsv)] = HistoryLine(clock, items[idx], price)
            /\ observations # <<>>
            /\ observations[Len(observations)] = CurrentSample
            /\ EventsOf("append", items[idx]) # {}
            /\ \A k \in DOMAIN events :
                  (IsAlert(events[k]) /\ events[k].item = items[idx])
                      => \E a \in EventsOf("append", items[idx]) : a < k
       /\ pc = "window" =>
            /\ Len(observations) \in WindowObs(items[idx], clock)
            /\ ~get_3hr_avg(historyCsv, items[idx], clock).none
            /\ pc' = "save" => avg_3hr'.n >= 1
      ]_vars

\* The earlier observation of the item has left the window: the average is
\* the current sample alone
C11_Witness ==
    /\ pc = "save"
    /\ entry.present
    /\ Len(observations) >= 2
    /\ WindowObs(items[idx], clock) = {Len(observations)}
    /\ avg_3hr = [sum |-> price, n |-> 1]


\* The current run was started less than one hour after the start of the run before it
StartedWithinAnHour == pc # "idle" /\ runStart - lastRun.start < 36000

\* C12 (as stated): a run started less than one hour after a run that
\* completed, over the same item list, performs no fetch, no ledger append
\* and no cache mutation for any item, whatever the outcomes of the first run.
C12_RerunIsIdle ==
    (lastRun.completed /\ StartedWithinAnHour)
        => /\ events = <<>>
           /\ prices = load_json(cacheFile)

\* C12 (amended): a run started less than one hour after the start of a run
\* that completed with every item of the list fetched and saved performs no
\* fetch, no ledger append and no cache mutation for any item.
C12_RerunAfterAllSaved ==
    (lastRun.allSaved /\ StartedWithinAnHour)
        => /\ events = <<>>
           /\ prices = load_json(cacheFile)
           /\ pc \in {"gate", "done"}
           /\ \A i \in DOMAIN items : Fresh(items[i])

\* A two-item list is run again half an hour after both items were saved
C12_Witness ==
    /\ lastRun.allSaved
    /\ StartedWithinAnHour
    /\ Len(items) = 2
    /\ pc = "done"
    /\ events = <<>>
    /\ Len(observations) = 2


\* C13: when the fetch of an item yields no price (fetch_price_for_item
\* returns None) the processing of that item ends there: the cache entry, in
\* memory and persisted, the ledger and the alerts sent stay as they were, no
\* exception is raised, and the run goes on to the next item of the list.
C13_FetchFailureFrame ==
    [][(pc = "fetch" /\ pc' # "record") =>
            /\ UNCHANGED <<prices, cacheFile, historyCsv, observations, exception>>
            /\ Len(events') = Len(events) + 2
            /\ SubSeq(events', 1, Len(events)) = events
            /\ \A k \in (Len(events) + 1)..Len(events') :
                  events'[k].op \notin {"append", "instant_alert", "window_alert", "save"}
            /\ idx' = idx + 1
            /\ pc' = (IF idx < Len(items) THEN "gate" ELSE "done")
      ]_vars

\* The fetch of the first of two items, which has a cache entry, failed and
\* the run stands before the second item
C13_Witness ==
    /\ pc = "gate"
    /\ idx = 2
    /\ Len(events) = 2
    /\ events[1] = Event("fetch", items[1], "", "")
    /\ items[1] \in DOMAIN prices
    /\ prices = load_json(cacheFile)


\* C14: in a run over a non-empty list, whatever the cache, the ledger, the
\* fetched prices (0 included) and the item names (commas included), every
\* item reaches a terminal state and the run reaches its end: no exception
\* leaves main with items of the list still unprocessed.
C14_EveryItemTerminates ==
    /\ pc # "crashed"
    /\ exception = ""
    /\ pc = "done" => idx = Len(items) + 1

\* C15: every record of the ledger, the header aside, reads back as exactly
\* three comma-separated fields, whatever the item identifier (one holding a
\* comma included).
C15_ThreeFields ==
    \A i \in 2..Len(historyCsv) : Len(Split(Strip(historyCsv[i]))) = 3


\* C16: a failed delivery of an instant or of a window alert is swallowed:
\* the processing of the item continues, the other signal is still
\* evaluated, the cache entry of the item is still updated and persisted with
\* the fetched price, and the items after it are still processed.  At every
\* state, an item with a failed delivery is either still on its way to the
\* cache write, or its entry was written and persisted after the failure.
FailedDeliveries ==
    {k \in DOMAIN events : IsAlert(events[k]) /\ events[k].status = "failed"}

InProgress(itm) == pc \in {"window", "save", "crashed"} /\ items[idx] = itm

C16_DeliveryFailureSwallowed ==
    \A k \in FailedDeliveries :
        IF InProgress(events[k].item)
        THEN pc # "crashed"
        ELSE /\ \E s \in EventsOf("save", events[k].item) : s > k
             /\ events[k].item \in DOMAIN load_json(cacheFile)
             /\ load_json(cacheFile)[events[k].item].price
                    = observations[Len(observations)
                                   - Cardinality({a \in DOMAIN events :
                                                     a > k /\ events[a].op = "append"})].price

\* A failed delivery does not change the course of the item: the step that
\* tried to deliver goes on to the next stage without an exception.
DeliveryFailureContinues ==
    [][(Len(events') = Len(events) + 1 /\ Len(events') \in FailedDeliveries')
          => /\ exception' = ""
             /\ pc' = (IF pc = "instant" THEN "window" ELSE "save")
             /\ UNCHANGED <<idx, items, price, prices, cacheFile, historyCsv>>
      ]_vars


\* The ledger records appended by the current run, as positions of the events
Appends == {k \in DOMAIN events : events[k].op = "append"}

\* The observation recorded by the append at position k of the events
ObservationOf(k) ==
    observations[Len(observations) - Cardinality({a \in Appends : a >= k}) + 1]

\* C17: at every point between two items (before the first, after an item
\* was skipped, failed or done, at the end of the run) the persisted cache
\* document equals the in-memory cache, and every item that received a ledger
\* record during this run has a persisted entry whose price is the price of
\* that record.
C17_PersistedAtItemBoundaries ==
    pc \in {"gate", "done"} =>
        /\ load_json(cacheFile) = prices
        /\ \A k \in Appends :
              /\ ObservationOf(k).item = events[k].item
              /\ events[k].item \in DOMAIN load_json(cacheFile)
              /\ load_json(cacheFile)[events[k].item].price = ObservationOf(k).price

\* Between the two items of a list, after the first one got a new price
C17_Witness ==
    /\ pc = "gate"
    /\ idx = 2
    /\ runs = 2
    /\ Appends # {}
    /\ cacheFile.exists
    /\ cacheFile.doc[items[1]].price = 110
    /\ observations[1].price = 100


\* Position of the first occurrence of x in the list l
First(l, x) == CHOOSE i \in DOMAIN l : l[i] = x /\ \A j \in 1..(i - 1) : l[j] # x

\* C18: in one run the cache entry of each item is written at most once and
\* the ledger receives at most one record per item, whatever the item list
\* source holds: the list the run iterates over holds each name of the raw
\* list once, in the order of the first occurrences.
C18_OncePerItem ==
    pc # "idle" =>
        LET raw == RawList(itemsFile, inventory) IN
        /\ {items[i] : i \in DOMAIN items} = {raw[i] : i \in DOMAIN raw}
        /\ \A i, j \in DOMAIN items :
              i < j => /\ items[i] # items[j]
                       /\ First(raw, items[i]) < First(raw, items[j])
        /\ \A i \in DOMAIN items :
              /\ Cardinality(EventsOf("save", items[i])) <= 1
              /\ Cardinality(EventsOf("append", items[i])) <= 1
              /\ Cardinality(EventsOf("fetch", items[i])) <= 1
        /\ Cardinality(Appends) <= Len(items)
        /\ \A k \in DOMAIN events : \E i \in DOMAIN items : events[k].item = items[i]

\* A source that repeats a name: the run is over, each of the two items was
\* recorded and saved once
C18_Witness ==
    /\ pc = "done"
    /\ Len(RawList(itemsFile, inventory)) > Len(items)
    /\ Len(items) = 2
    /\ \A i \in DOMAIN items :
          /\ Cardinality(EventsOf("save", items[i])) = 1
          /\ Cardinality(EventsOf("append", items[i])) = 1


\* C19: after every price fetch, successful or not, 1.2 s are waited before
\* the run goes on (to the record of this item, or to the next item); an
\* item skipped by the staleness gate issues no fetch and incurs no delay.
C19_DelayAfterEveryFetch ==
    [][/\ pc = "fetch" =>
            /\ clock' >= clock + 12
            /\ events' = events \o <<Event("fetch", items[idx], "", ""),
                                     Event("sleep", items[idx], "", "")>>
       /\ (pc = "gate" /\ pc' \in {"gate", "done"}) =>
            /\ clock' = clock
            /\ events' = events
       /\ \A k \in DOMAIN events :
             events[k].op = "fetch" =>
                 /\ k + 1 \in DOMAIN events
                 /\ events[k + 1] = Event("sleep", events[k].item, "", "")
       /\ clock - runStart >= 12 * Cardinality({k \in DOMAIN events : events[k].op = "fetch"})
      ]_vars

\* A run over two items: the fetch of the first failed, the second was
\* fetched and saved, and both fetches were followed by the delay
C19_Witness ==
    /\ pc = "done"
    /\ Len(items) = 2
    /\ EventsOf("fetch", items[1]) = {1}
    /\ EventsOf("sleep", items[1]) = {2}
    /\ EventsOf("append", items[1]) = {}
    /\ EventsOf("sleep", items[2]) = {4}
    /\ EventsOf("save", items[2]) # {}
    /\ clock - runStart >= 24


(***************************************************************************)
(* safe_get_json with mixed failures (checked under SpecFetch)             *)
(***************************************************************************)
\* Number of exceptions and 5xx responses among the requests before the k-th
Doublings(k) ==
    Cardinality({j \in 1..(k - 1) : outcomes[j].exc \/ Is5xx(outcomes[j])})

\* C20: in a call that mixes the kinds of failure, the wait after a 429 at
\* the n-th request is 2^n, n counting every request of the call so far; the
\* wait after an exception or a 5xx is 2^d, d counting the earlier exceptions
\* and 5xx only, so a 429 leaves the doubling delay as it was; and a wait is
\* performed after every retryable failure, the sixth included, before the
\* call returns its failure.
C20_MixedBackoff ==
    /\ \A k \in DOMAIN outcomes :
          IsRetryable(outcomes[k]) =>
              /\ k \in DOMAIN http.waits
              /\ http.waits[k] = (IF Is429(outcomes[k]) THEN Pow(2, k)
                                  ELSE Pow(2, Doublings(k)))
    /\ Len(http.waits) = Cardinality({k \in DOMAIN outcomes : IsRetryable(outcomes[k])})
    /\ http.delay = Pow(2, Doublings(Len(outcomes) + 1))
    /\ (http.pc = "returned" /\ Len(outcomes) = 6 /\ IsRetryable(outcomes[6]))
          => Len(http.waits) = 6 /\ http.ret = None

\* exception, 429, 5xx, 429, exception, 429: the call gave up after six waits
C20_Witness ==
    /\ http.pc = "returned"
    /\ http.ret = None
    /\ Len(outcomes) = 6
    /\ outcomes[1].exc /\ Is429(outcomes[2]) /\ Is5xx(outcomes[3])
    /\ Is429(outcomes[4]) /\ outcomes[5].exc /\ Is429(outcomes[6])
    /\ http.waits = <<1, 4, 2, 16, 4, 64>>
    /\ http.delay = 8

====
